---- MODULE Spec2Model ----
(***************************************************************************)
(* The workflow orchestrator of the plant-bed clustering front end:        *)
(* the Home component of src/src/app/page.tsx, its handlers, the render    *)
(* gating that wires the handlers to the child components, and the         *)
(* responses of the three backend services reached through                 *)
(* src/src/services/api.service.ts.                                        *)
(*                                                                         *)
(* Each handler is an async function: it runs synchronously up to an       *)
(* await, is suspended while the remote call is pending, and its           *)
(* continuation runs to the next await or to the end when the call         *)
(* settles.  An invocation is a task that keeps the values its closure     *)
(* captured when the handler was invoked.                                  *)
(***************************************************************************)
EXTENDS Integers, Sequences, FiniteSets

VARIABLES
  currentStep,           \* page.tsx:38
  processingResult,      \* page.tsx:39
  enhancementData,       \* page.tsx:40
  enhancementSelection,  \* page.tsx:41
  clusteringResult,      \* page.tsx:42
  isLoading,             \* page.tsx:43
  error,                 \* page.tsx:44, a sequence of text pieces, <<>> for null
  tasks,                 \* the handler invocations that have not returned yet
  nextSession,           \* the session id the image service assigns next
  generated,             \* per session: successful createEnhancedColors calls (0, 1, many)
  ev                     \* the step that led to this state (observation only)

vars == <<currentStep, processingResult, enhancementData, enhancementSelection,
          clusteringResult, isLoading, error, tasks, nextSession, generated, ev>>

----------------------------------------------------------------------------
(* Bounds of the model *)

MaxUploads == 2      \* images the image service processes successfully
MaxBeds == 2         \* beds the image service detects in an image
MaxClusters == 2     \* clusters in a clustering result
MaxTasks == 2        \* handler invocations that can be suspended together

----------------------------------------------------------------------------
(* Values *)

NULL == [null |-> TRUE]
UNDEFINED == [undefined |-> TRUE]
NoError == <<>>

Sessions == 1..MaxUploads
Slots == 1..MaxTasks

ENHANCEMENT_METHODS ==
  {"original", "enhanced_saturation", "contrast_stretched", "color_ratios", "pca_features"}

ExportTypes == {"summary", "detailed"}

\* The files a user can drop: a plan, a large scan and a document.
Files ==
  { [name |-> "plan.png", type |-> <<"image", "png">>, ext |-> ".png", megabytes |-> 2],
    [name |-> "scan.png", type |-> <<"image", "png">>, ext |-> ".png", megabytes |-> 12],
    [name |-> "notes.pdf", type |-> <<"application", "pdf">>, ext |-> ".pdf", megabytes |-> 1] }

\* useDropzone({accept: {'image/*': [...]}, maxFiles: 1}): a file passes when
\* its media type matches image/* or its name ends in a listed extension;
\* no maxSize is given.
DropzoneAccepts(file) ==
  file.type[1] = "image" \/ file.ext \in {".jpeg", ".jpg", ".png", ".webp"}

\* The bed list of the image of session sid, with n beds: the colors of the
\* beds differ from one image to the next.
BedList(sid, n) == [i \in 1..n |-> [bed_id |-> i, rgb_median |-> <<"rgb", sid, i>>]]

\* The rows the clustering service derives for a method, one per bed.
Rows(method, bed_data) ==
  [i \in 1..Len(bed_data) |->
     IF method = "original" THEN bed_data[i].rgb_median ELSE <<method, i>>]

\* Rows that do not match the beds: one row more than there are beds.
MismatchedRows(method, bed_data) == Rows(method, bed_data) \o <<<<method, "extra">>>>

\* The method sets a createEnhancedColors response can hold.
KeySets == {ENHANCEMENT_METHODS, {"original", "pca_features"}, {"pca_features"}}

\* A cluster-name -> bed-ids mapping, as the list of its entries in iteration order.
ClusterMap(n) == [i \in 1..n |-> [name |-> <<"cluster", i>>, bed_ids |-> {i}]]
ClusterMaps == {ClusterMap(n) : n \in 0..MaxClusters}

MessageLists == {<<>>, <<"no clusters">>, <<"no clusters", "GDAL not available">>}

\* A rejected axios call: an AxiosError (an Error) with a message, and the
\* detail of the backend's error body when a response was received.
Failures ==
  { [isError |-> TRUE, message |-> <<"Network Error">>, detail |-> <<>>],
    [isError |-> TRUE, message |-> <<"Request failed with status code 500">>,
     detail |-> <<"backend detail">>] }

Ok(data) == [ok |-> TRUE, data |-> data]
Fail(err) == [ok |-> FALSE, err |-> err]
Rejections == {Fail(f) : f \in Failures}

\* a || b on strings: the first one that is not empty
OrElse(a, b) == IF a # <<>> THEN a ELSE b

\* Array.prototype.join
RECURSIVE Join(_, _)
Join(parts, sep) ==
  IF parts = <<>> THEN <<>>
  ELSE IF Len(parts) = 1 THEN <<parts[1]>>
  ELSE <<parts[1], sep>> \o Join(Tail(parts), sep)

\* obj[key] of a plain object
Lookup(obj, key) == IF key \in DOMAIN obj THEN obj[key] ELSE UNDEFINED

\* Number.prototype.toString, as the list of the decimal digits
Digits == <<"0", "1", "2", "3", "4", "5", "6", "7", "8", "9">>
RECURSIVE toString(_)
toString(i) ==
  IF i < 10 THEN <<Digits[i + 1]>> ELSE toString(i \div 10) \o <<Digits[(i % 10) + 1]>>

----------------------------------------------------------------------------
(* Responses of the backend services *)

ProcessImageOutcomes(sid) ==
  {Ok([session_id |-> sid, bed_count |-> n, bed_data |-> BedList(sid, n)]) : n \in 0..MaxBeds}
    \cup Rejections

\* of_session is not a field of the response: it records the session whose
\* bed list the request carried.
CreateEnhancedColorsOutcomes(bed_data, sid) ==
  {Ok([enhanced_colors |-> [m \in K |-> Rows(m, bed_data)], of_session |-> sid]) :
     K \in KeySets}
    \cup {Ok([enhanced_colors |-> [m \in ENHANCEMENT_METHODS |-> MismatchedRows(m, bed_data)],
              of_session |-> sid])}
    \cup Rejections

ProcessClusteringOutcomes ==
  {Ok([processed_clusters |-> c, coverage_percent |-> 100]) : c \in ClusterMaps}
    \cup Rejections

ValidateExportOutcomes ==
  {Ok([can_export |-> b, messages |-> ms]) : b \in BOOLEAN, ms \in MessageLists}
    \cup Rejections

ExportDxfOutcomes == {Ok([blob |-> "dxf"])} \cup Rejections

----------------------------------------------------------------------------
(* The state of Home and of its suspended handlers *)

IDLE == [handler |-> "idle", pc |-> "idle"]

\* A variant whose catch block issues the rejected call once more.
CaughtRetries(t) == [t EXCEPT !.calls = Append(@, t.call)]

\* catch (err) { setError(...) } finally { setIsLoading(false) }: the handler
\* whose call was rejected returns.
Caught(t) == IDLE

Snapshot ==
  [currentStep |-> currentStep,
   processingResult |-> processingResult,
   enhancementData |-> enhancementData,
   enhancementSelection |-> enhancementSelection,
   clusteringResult |-> clusteringResult]

\* A handler invoked now: its closure holds the state of the render it was
\* created in; entry and calls are a record of what it saw and asked for.
\* pc is "start" until the first await, "await" while a call is pending and
\* "resumed" when the awaited function has returned.
NewTask(handler, arg, call) ==
  [handler |-> handler, pc |-> IF call = NULL THEN "start" ELSE "await", arg |-> arg,
   pr |-> processingResult, ed |-> enhancementData,
   es |-> enhancementSelection, cr |-> clusteringResult,
   call |-> call, calls |-> IF call = NULL THEN <<>> ELSE <<call>>, entry |-> Snapshot,
   colors |-> NULL, validation |-> NULL, clusterDict |-> NULL, rejection |-> NULL]

Busy == {s \in Slots : tasks[s] # IDLE}
InFlight == {s \in Slots : tasks[s].pc = "await"}
Awaiting(api) == {s \in InFlight : tasks[s].call.api = api}
HasFreeSlot == Busy # Slots
FreeSlot == CHOOSE s \in Slots : tasks[s] = IDLE /\ \A r \in Slots : tasks[r] = IDLE => s <= r

\* A continuation that is queued as a microtask runs before any event.
MicrotaskPending == \E s \in Slots : tasks[s].pc = "resumed"

Event(kind, handler) ==
  [kind |-> kind, handler |-> handler, gesture |-> kind \in {"ignored", "entered", "invoked"},
   wasLoading |-> isLoading, status |-> "none",
   entry |-> NULL, calls |-> <<>>, arg |-> NULL, payload |-> NULL,
   colors |-> NULL, validation |-> NULL, download |-> NULL, rejection |-> NULL]

Completed(t, status) ==
  [Event("completed", t.handler) EXCEPT
     !.gesture = t.pc = "start", !.status = status, !.entry = t.entry, !.calls = t.calls, !.arg = t.arg,
     !.colors = t.colors, !.validation = t.validation, !.rejection = t.rejection]

Write(new) ==
  /\ currentStep' = new.currentStep
  /\ processingResult' = new.processingResult
  /\ enhancementData' = new.enhancementData
  /\ enhancementSelection' = new.enhancementSelection
  /\ clusteringResult' = new.clusteringResult

Init ==
  /\ currentStep = "upload"
  /\ processingResult = NULL
  /\ enhancementData = NULL
  /\ enhancementSelection = NULL
  /\ clusteringResult = NULL
  /\ isLoading = FALSE
  /\ error = NoError
  /\ tasks = [s \in Slots |-> IDLE]
  /\ nextSession = 1
  /\ generated = [s \in Sessions |-> 0]
  /\ ev = Event("init", "none")

----------------------------------------------------------------------------
(* Presentation: which child component is mounted, and so which handler a
   user gesture reaches *)

\* A variant that keeps the step components mounted while loading.
StepsVisibleAlways == TRUE

\* {!isLoading && ( ... )}
StepsVisible == ~isLoading

Rendered(component) ==
  CASE component = "ErrorBanner" -> error # NoError
    [] component = "ImageUploader" -> StepsVisible /\ currentStep = "upload"
    [] component = "EnhancementSelector" ->
         StepsVisible /\ currentStep = "enhancement" /\ processingResult # NULL
    [] component = "ClusteringCanvas" ->
         StepsVisible /\ currentStep = "clustering" /\ enhancementSelection # NULL
    [] component = "ResultsDashboard" ->
         /\ StepsVisible /\ currentStep = "results"
         /\ clusteringResult # NULL /\ processingResult # NULL

\* A gesture aimed at a control that is not mounted reaches no handler.
Ignored(handler) ==
  /\ ev' = Event("ignored", handler)
  /\ UNCHANGED <<currentStep, processingResult, enhancementData, enhancementSelection,
                 clusteringResult, isLoading, error, tasks, nextSession, generated>>

----------------------------------------------------------------------------
(* handleImageUpload *)

\* What the continuation of handleImageUpload stores.
\* A variant whose failed upload drops the result of the upload before it.
AfterProcessImageDropsOnFailure(cur, outcome) ==
  IF outcome.ok
  THEN [cur EXCEPT !.processingResult = outcome.data, !.currentStep = "enhancement"]
  ELSE [cur EXCEPT !.processingResult = NULL]

\* A variant whose successful upload skips the Enhancement stage.
AfterProcessImageSkipsAhead(cur, outcome) ==
  IF outcome.ok
  THEN [cur EXCEPT !.processingResult = outcome.data, !.currentStep = "clustering"]
  ELSE cur

AfterProcessImage(cur, outcome) ==
  IF outcome.ok
  THEN [cur EXCEPT !.processingResult = outcome.data, !.currentStep = "enhancement"]
  ELSE cur

handleImageUpload(file) ==
  /\ HasFreeSlot
  /\ nextSession + Cardinality({s \in Slots : tasks[s].handler = "handleImageUpload"})
       <= MaxUploads
  /\ isLoading' = TRUE
  /\ error' = NoError
  /\ tasks' = [tasks EXCEPT ![FreeSlot] =
                 NewTask("handleImageUpload", [file |-> file],
                         [api |-> "processImage", file |-> file])]
  /\ ev' = Event("entered", "handleImageUpload")
  /\ UNCHANGED <<currentStep, processingResult, enhancementData, enhancementSelection,
                 clusteringResult, nextSession, generated>>

UserDropsFile(file) ==
  /\ ~MicrotaskPending
  /\ IF Rendered("ImageUploader") /\ DropzoneAccepts(file) THEN handleImageUpload(file)
     ELSE Ignored("handleImageUpload")

ProcessImageSettles(s, outcome) ==
  /\ ~MicrotaskPending
  /\ s \in Awaiting("processImage")
  /\ outcome \in ProcessImageOutcomes(nextSession)
  /\ Write(AfterProcessImage(Snapshot, outcome))
  /\ error' = IF outcome.ok THEN error
              ELSE <<"Image Processing Error: ">> \o
                   OrElse(outcome.err.detail,
                          OrElse(outcome.err.message, <<"Failed to process image">>))
  /\ isLoading' = FALSE
  /\ nextSession' = IF outcome.ok THEN nextSession + 1 ELSE nextSession
  /\ tasks' = [tasks EXCEPT ![s] = IF outcome.ok THEN IDLE ELSE Caught(tasks[s])]
  /\ ev' = [Completed(tasks[s], IF outcome.ok THEN "ok" ELSE "error") EXCEPT
              !.payload = IF outcome.ok THEN outcome.data ELSE NULL,
              !.rejection = IF outcome.ok THEN NULL ELSE outcome.err]
  /\ UNCHANGED generated

----------------------------------------------------------------------------
(* handleEnhancementSelection and generateEnhancedColors *)

\* A variant that fetches on every selection.
NeedsGenerationAlways(colors) == TRUE

\* let colors = enhancementData; if (!colors) ...
NeedsGeneration(colors) == colors = NULL

\* A variant without the check of the method name.
MethodAvailableUnchecked(colors, method) == TRUE

\* !colors.enhanced_colors[method]: the value under a key of the response is
\* an array, which is truthy, so the test is whether the key is there.
MethodAvailable(colors, method) == method \in DOMAIN colors.enhanced_colors

\* A variant that takes the original colors from the rows of the method.
BuildSelectionPlotAsOriginal(pr, colors, method) ==
  [method |-> method,
   plot_data |-> Lookup(colors.enhanced_colors, method),
   xlabel |-> "Component 1",
   ylabel |-> "Component 2",
   original_colors |-> Lookup(colors.enhanced_colors, method),
   full_enhanced_colors |-> colors.enhanced_colors]

BuildSelection(pr, colors, method) ==
  LET originalRgbColors == [i \in 1..Len(pr.bed_data) |-> pr.bed_data[i].rgb_median]
      rgbColors == IF "original" \in DOMAIN colors.enhanced_colors
                   THEN colors.enhanced_colors["original"]
                   ELSE originalRgbColors
  IN [method |-> method,
      plot_data |-> Lookup(colors.enhanced_colors, method),
      xlabel |-> "Component 1",
      ylabel |-> "Component 2",
      original_colors |-> rgbColors,
      full_enhanced_colors |-> colors.enhanced_colors]

\* The error thrown in the try block once colors is known, <<>> when none is.
SelectionError(colors, method) ==
  IF colors = NULL THEN <<"Failed to generate enhanced colors">>
  ELSE IF ~MethodAvailable(colors, method)
       THEN <<"Enhancement method '", method, "' not available">>
       ELSE <<>>

\* A variant that stores the selection before the method name is checked.
AfterSelectionEager(cur, pr, colors, method) ==
  IF colors = NULL THEN cur
  ELSE IF MethodAvailable(colors, method)
  THEN [cur EXCEPT !.enhancementSelection = BuildSelection(pr, colors, method),
                   !.currentStep = "clustering"]
  ELSE [cur EXCEPT !.enhancementSelection = BuildSelection(pr, colors, method)]

\* What handleEnhancementSelection stores once colors is known.
AfterSelection(cur, pr, colors, method) ==
  IF SelectionError(colors, method) = <<>>
  THEN [cur EXCEPT !.enhancementSelection = BuildSelection(pr, colors, method),
                   !.currentStep = "clustering"]
  ELSE cur

\* The rest of handleEnhancementSelection from line 116 on; before is the
\* error message in place when it runs.
FinishSelection(t, colors, before) ==
  LET thrown == SelectionError(colors, t.arg.method) IN
  /\ Write(AfterSelection(Snapshot, t.pr, colors, t.arg.method))
  /\ error' = IF thrown = <<>> THEN before
              ELSE <<"Enhancement Selection Error: ">> \o thrown
  /\ isLoading' = FALSE
  /\ ev' = [Completed(t, IF thrown = <<>> THEN "ok" ELSE "error") EXCEPT !.colors = colors]

handleEnhancementSelection(method) ==
  IF processingResult = NULL
  THEN Ignored("handleEnhancementSelection")
  ELSE IF NeedsGeneration(enhancementData)
  THEN \* generateEnhancedColors up to its await
       /\ HasFreeSlot
       /\ isLoading' = TRUE
       /\ error' = NoError
       /\ tasks' = [tasks EXCEPT ![FreeSlot] =
                      NewTask("handleEnhancementSelection", [method |-> method],
                              [api |-> "createEnhancedColors",
                               bed_data |-> processingResult.bed_data])]
       /\ ev' = Event("entered", "handleEnhancementSelection")
       /\ UNCHANGED <<currentStep, processingResult, enhancementData,
                      enhancementSelection, clusteringResult, nextSession, generated>>
  ELSE \* no await: the handler runs to its end
       /\ FinishSelection(NewTask("handleEnhancementSelection", [method |-> method], NULL),
                          enhancementData, NoError)
       /\ UNCHANGED <<tasks, nextSession, generated>>

UserContinues(method) ==
  /\ ~MicrotaskPending
  /\ IF Rendered("EnhancementSelector") THEN handleEnhancementSelection(method)
     ELSE Ignored("handleEnhancementSelection")

\* The continuation of generateEnhancedColors; its caller resumes next.
CreateEnhancedColorsSettles(s, outcome) ==
  LET t == tasks[s] IN
  /\ ~MicrotaskPending
  /\ s \in Awaiting("createEnhancedColors")
  /\ outcome \in CreateEnhancedColorsOutcomes(t.call.bed_data, t.pr.session_id)
  /\ enhancementData' = IF outcome.ok THEN outcome.data ELSE enhancementData
  /\ error' = IF outcome.ok THEN error
              ELSE <<"Enhancement Error: ">> \o
                   (IF outcome.err.isError THEN outcome.err.message
                    ELSE OrElse(outcome.err.detail, <<"Failed to create enhanced colors">>))
  /\ isLoading' = FALSE
  /\ generated' = IF outcome.ok
                  THEN [generated EXCEPT ![t.pr.session_id] =
                          IF @ < 2 THEN @ + 1 ELSE @]
                  ELSE generated
  /\ tasks' = [tasks EXCEPT ![s] =
                 [t EXCEPT !.pc = "resumed",
                           !.colors = IF outcome.ok THEN outcome.data ELSE NULL,
                           !.rejection = IF outcome.ok THEN NULL ELSE outcome.err]]
  /\ ev' = [Event("settled", "generateEnhancedColors") EXCEPT
              !.status = IF outcome.ok THEN "ok" ELSE "error",
              !.payload = IF outcome.ok THEN outcome.data ELSE NULL,
              !.rejection = IF outcome.ok THEN NULL ELSE outcome.err]
  /\ UNCHANGED <<currentStep, processingResult, enhancementSelection, clusteringResult,
                 nextSession>>

SelectionResumes(s) ==
  /\ tasks[s].handler = "handleEnhancementSelection" /\ tasks[s].pc = "resumed"
  /\ FinishSelection(tasks[s], tasks[s].colors, error)
  /\ tasks' = [tasks EXCEPT ![s] = IDLE]
  /\ UNCHANGED <<nextSession, generated>>

----------------------------------------------------------------------------
(* handleClustering *)

\* A variant that shows the results whether or not the call succeeded.
AfterProcessClusteringAlwaysAdvances(cur, outcome) ==
  IF outcome.ok
  THEN [cur EXCEPT !.clusteringResult = outcome.data, !.currentStep = "results"]
  ELSE [cur EXCEPT !.currentStep = "results"]

AfterProcessClustering(cur, outcome) ==
  IF outcome.ok
  THEN [cur EXCEPT !.clusteringResult = outcome.data, !.currentStep = "results"]
  ELSE cur

handleClustering(clustersData) ==
  IF processingResult = NULL \/ enhancementSelection = NULL
  THEN Ignored("handleClustering")
  ELSE /\ HasFreeSlot
       /\ isLoading' = TRUE
       /\ error' = NoError
       /\ tasks' = [tasks EXCEPT ![FreeSlot] =
                      NewTask("handleClustering", [clustersData |-> clustersData],
                              [api |-> "processClustering",
                               bed_data |-> processingResult.bed_data,
                               enhanced_colors |-> enhancementSelection.full_enhanced_colors,
                               clusters_data |-> clustersData])]
       /\ ev' = Event("entered", "handleClustering")
       /\ UNCHANGED <<currentStep, processingResult, enhancementData,
                      enhancementSelection, clusteringResult, nextSession, generated>>

UserSubmitsClusters(clustersData) ==
  /\ ~MicrotaskPending
  /\ IF Rendered("ClusteringCanvas") THEN handleClustering(clustersData)
     ELSE Ignored("handleClustering")

ProcessClusteringSettles(s, outcome) ==
  /\ ~MicrotaskPending
  /\ s \in Awaiting("processClustering")
  /\ outcome \in ProcessClusteringOutcomes
  /\ Write(AfterProcessClustering(Snapshot, outcome))
  /\ error' = IF outcome.ok THEN error
              ELSE <<"Clustering Error: ">> \o
                   OrElse(outcome.err.detail,
                          OrElse(outcome.err.message, <<"Failed to process clustering">>))
  /\ isLoading' = FALSE
  /\ tasks' = [tasks EXCEPT ![s] = IF outcome.ok THEN IDLE ELSE Caught(tasks[s])]
  /\ ev' = [Completed(tasks[s], IF outcome.ok THEN "ok" ELSE "error") EXCEPT
              !.payload = IF outcome.ok THEN outcome.data ELSE NULL,
              !.rejection = IF outcome.ok THEN NULL ELSE outcome.err]
  /\ UNCHANGED <<nextSession, generated>>

----------------------------------------------------------------------------
(* handleExport *)

\* A variant that numbers the clusters from 1.
ClusterDictFromOne(processed_clusters) ==
  [k \in {toString(i) : i \in 1..Len(processed_clusters)} |->
     processed_clusters[CHOOSE i \in 1..Len(processed_clusters) : toString(i) = k].name]

\* clusterDict[index.toString()] = clusterName, over the entries of
\* processed_clusters in iteration order (index from 0)
ClusterDict(processed_clusters) ==
  [k \in {toString(i - 1) : i \in 1..Len(processed_clusters)} |->
     processed_clusters[CHOOSE i \in 1..Len(processed_clusters) : toString(i - 1) = k].name]

\* A variant that exports whatever the validation said.
ExportAllowedAlways(validation) == TRUE

\* if (!validation.can_export) throw ...
ExportAllowed(validation) == validation.can_export

\* A variant that shows the fixed text instead of the error's message.
ExportErrorGeneric(err) == <<"Export Error: ", "Failed to export DXF">>

\* err.response?.data?.detail || err.message || "Failed to export DXF"
ExportError(err) ==
  <<"Export Error: ">> \o OrElse(err.detail, OrElse(err.message, <<"Failed to export DXF">>))

\* new Error(...) has a message and no response
NewError(message) == [isError |-> TRUE, message |-> message, detail |-> <<>>]

handleExport(exportType) ==
  IF processingResult = NULL \/ clusteringResult = NULL
  THEN Ignored("handleExport")
  ELSE LET clusterDict == ClusterDict(clusteringResult.processed_clusters) IN
       /\ HasFreeSlot
       /\ isLoading' = TRUE
       /\ error' = NoError
       /\ tasks' = [tasks EXCEPT ![FreeSlot] =
                      [NewTask("handleExport", [exportType |-> exportType],
                               [api |-> "validateExport",
                                bed_data |-> processingResult.bed_data,
                                cluster_dict |-> clusterDict])
                         EXCEPT !.clusterDict = clusterDict]]
       /\ ev' = Event("entered", "handleExport")
       /\ UNCHANGED <<currentStep, processingResult, enhancementData,
                      enhancementSelection, clusteringResult, nextSession, generated>>

UserExports(exportType) ==
  /\ ~MicrotaskPending
  /\ IF Rendered("ResultsDashboard") THEN handleExport(exportType)
     ELSE Ignored("handleExport")

ValidateExportSettles(s, outcome) ==
  LET t == tasks[s] IN
  /\ ~MicrotaskPending
  /\ s \in Awaiting("validateExport")
  /\ outcome \in ValidateExportOutcomes
  /\ IF outcome.ok /\ ExportAllowed(outcome.data)
     THEN LET call == [api |-> "exportDxf", bed_data |-> t.pr.bed_data,
                       cluster_dict |-> t.clusterDict,
                       export_type |-> t.arg.exportType]
          IN /\ tasks' = [tasks EXCEPT ![s] =
                            [t EXCEPT !.call = call, !.calls = Append(@, call),
                                      !.validation = outcome.data]]
             /\ ev' = [Event("settled", "handleExport") EXCEPT
                         !.validation = outcome.data]
             /\ UNCHANGED <<isLoading, error>>
     ELSE /\ error' = ExportError(
                        IF outcome.ok
                        THEN NewError(<<"Cannot export: ">> \o
                                      Join(outcome.data.messages, ", "))
                        ELSE outcome.err)
          /\ isLoading' = FALSE
          /\ tasks' = [tasks EXCEPT ![s] = IF outcome.ok THEN IDLE ELSE Caught(tasks[s])]
          /\ ev' = [Completed(t, "error") EXCEPT
                      !.validation = IF outcome.ok THEN outcome.data ELSE NULL,
                      !.rejection = IF outcome.ok THEN NULL ELSE outcome.err]
  /\ UNCHANGED <<currentStep, processingResult, enhancementData, enhancementSelection,
                 clusteringResult, nextSession, generated>>

ExportDxfSettles(s, outcome) ==
  LET t == tasks[s] IN
  /\ ~MicrotaskPending
  /\ s \in Awaiting("exportDxf")
  /\ outcome \in ExportDxfOutcomes
  /\ error' = IF outcome.ok THEN error ELSE ExportError(outcome.err)
  /\ isLoading' = FALSE
  /\ tasks' = [tasks EXCEPT ![s] = IF outcome.ok THEN IDLE ELSE Caught(tasks[s])]
  /\ ev' = [Completed(t, IF outcome.ok THEN "ok" ELSE "error") EXCEPT
              !.rejection = IF outcome.ok THEN NULL ELSE outcome.err,
              !.download =
                 IF outcome.ok
                 THEN [blob |-> outcome.data,
                       filename |-> <<"plant_clusters_", t.arg.exportType, "_",
                                      "timestamp", ".dxf">>]
                 ELSE NULL]
  /\ UNCHANGED <<currentStep, processingResult, enhancementData, enhancementSelection,
                 clusteringResult, nextSession, generated>>

----------------------------------------------------------------------------
(* handleReset, handleBack and the error banner *)

AfterReset(cur) ==
  [currentStep |-> "upload", processingResult |-> NULL, enhancementData |-> NULL,
   enhancementSelection |-> NULL, clusteringResult |-> NULL]

handleReset ==
  /\ Write(AfterReset(Snapshot))
  /\ error' = NoError
  /\ ev' = Event("invoked", "handleReset")
  /\ UNCHANGED <<isLoading, tasks, nextSession, generated>>

UserResets ==
  /\ ~MicrotaskPending
  /\ IF Rendered("ResultsDashboard") THEN handleReset ELSE Ignored("handleReset")

\* Variants of handleBack, used to test what the properties below detect.
AfterBackClearsColors(cur) ==
  IF cur.currentStep = "enhancement"
  THEN [cur EXCEPT !.currentStep = "upload"]
  ELSE IF cur.currentStep = "clustering"
  THEN [cur EXCEPT !.currentStep = "enhancement", !.enhancementSelection = NULL,
                   !.enhancementData = NULL]
  ELSE IF cur.currentStep = "results"
  THEN [cur EXCEPT !.currentStep = "clustering", !.clusteringResult = NULL]
  ELSE cur

AfterBackKeepsSelection(cur) ==
  IF cur.currentStep = "enhancement"
  THEN [cur EXCEPT !.currentStep = "upload"]
  ELSE IF cur.currentStep = "clustering"
  THEN [cur EXCEPT !.currentStep = "enhancement"]
  ELSE IF cur.currentStep = "results"
  THEN [cur EXCEPT !.currentStep = "clustering", !.clusteringResult = NULL]
  ELSE cur

AfterBack(cur) ==
  IF cur.currentStep = "enhancement"
  THEN [cur EXCEPT !.currentStep = "upload"]
  ELSE IF cur.currentStep = "clustering"
  THEN [cur EXCEPT !.currentStep = "enhancement", !.enhancementSelection = NULL]
  ELSE IF cur.currentStep = "results"
  THEN [cur EXCEPT !.currentStep = "clustering", !.clusteringResult = NULL]
  ELSE cur

handleBack ==
  /\ Write(AfterBack(Snapshot))
  /\ error' = NoError
  /\ ev' = Event("invoked", "handleBack")
  /\ UNCHANGED <<isLoading, tasks, nextSession, generated>>

\* onBack is passed to EnhancementSelector and to ClusteringCanvas only.
UserGoesBack ==
  /\ ~MicrotaskPending
  /\ IF Rendered("EnhancementSelector") \/ Rendered("ClusteringCanvas")
     THEN handleBack ELSE Ignored("handleBack")

UserDismissesError ==
  /\ ~MicrotaskPending
  /\ Rendered("ErrorBanner")
  /\ error' = NoError
  /\ ev' = Event("invoked", "dismissError")
  /\ UNCHANGED <<currentStep, processingResult, enhancementData, enhancementSelection,
                 clusteringResult, isLoading, tasks, nextSession, generated>>

----------------------------------------------------------------------------
(* ApiService.checkAllServicesHealth *)

\* results[0], results[1], results[2] of the Promise.allSettled
Services == {"imageProcessing", "clustering", "dxfExport"}

\* A variant that reports every service as healthy.
HealthReportAllUp(results) == [svc \in Services |-> TRUE]

\* imageProcessing: results[0].status === 'fulfilled', ...
HealthReport(results) == [svc \in Services |-> results[svc] = "fulfilled"]

HealthChecks == {s \in Slots : tasks[s].handler = "checkAllServicesHealth"}

\* The three get...Health() calls are made before the await.
checkAllServicesHealth ==
  /\ HealthChecks = {}
  /\ HasFreeSlot
  /\ tasks' = [tasks EXCEPT ![FreeSlot] =
                 [handler |-> "checkAllServicesHealth", pc |-> "allSettled",
                  results |-> [svc \in Services |-> "pending"], settled |-> <<>>]]
  /\ ev' = Event("entered", "checkAllServicesHealth")
  /\ UNCHANGED <<currentStep, processingResult, enhancementData, enhancementSelection,
                 clusteringResult, isLoading, error, nextSession, generated>>

HealthCallSettles(s, svc, status) ==
  /\ s \in HealthChecks
  /\ tasks[s].results[svc] = "pending"
  /\ tasks' = [tasks EXCEPT ![s].results[svc] = status,
                            ![s].settled = Append(@, [service |-> svc, status |-> status])]
  /\ ev' = Event("settled", "checkAllServicesHealth")
  /\ UNCHANGED <<currentStep, processingResult, enhancementData, enhancementSelection,
                 clusteringResult, isLoading, error, nextSession, generated>>

\* Promise.allSettled fulfils once each of the three has settled.
HealthCheckReturns(s) ==
  /\ s \in HealthChecks
  /\ \A svc \in Services : tasks[s].results[svc] # "pending"
  /\ tasks' = [tasks EXCEPT ![s] = IDLE]
  /\ ev' = [Event("completed", "checkAllServicesHealth") EXCEPT
              !.status = "ok", !.calls = tasks[s].settled,
              !.payload = HealthReport(tasks[s].results)]
  /\ UNCHANGED <<currentStep, processingResult, enhancementData, enhancementSelection,
                 clusteringResult, isLoading, error, nextSession, generated>>

----------------------------------------------------------------------------
(* ApiService.completeWorkflow *)

Workflows == {s \in Slots : tasks[s].handler = "completeWorkflow"}

\* The call completeWorkflow makes once the call before it has resolved
\* with data; t holds the results received so far.
NextWorkflowCall(t, data) ==
  CASE t.call.api = "processImage" ->
         [api |-> "createEnhancedColors", bed_data |-> data.bed_data]
    [] t.call.api = "createEnhancedColors" ->
         [api |-> "processClustering", bed_data |-> t.processing.bed_data,
          enhanced_colors |-> data.enhanced_colors, clusters_data |-> t.arg.clusters]
    [] t.call.api = "processClustering" ->
         [api |-> "exportDxf", bed_data |-> t.processing.bed_data,
          cluster_dict |-> ClusterDict(t.arg.clusters),
          export_type |-> t.arg.exportType]

WorkflowOutcomes(t) ==
  CASE t.call.api = "processImage" -> ProcessImageOutcomes(nextSession)
    [] t.call.api = "createEnhancedColors" ->
         CreateEnhancedColorsOutcomes(t.processing.bed_data, t.processing.session_id)
    [] t.call.api = "processClustering" -> ProcessClusteringOutcomes
    [] t.call.api = "exportDxf" -> ExportDxfOutcomes

completeWorkflow(imageFile, selectedEnhancementMethod, clusters, exportType) ==
  /\ Busy = {}
  /\ nextSession <= MaxUploads
  /\ tasks' = [tasks EXCEPT ![FreeSlot] =
                 [handler |-> "completeWorkflow", pc |-> "await",
                  arg |-> [imageFile |-> imageFile, method |-> selectedEnhancementMethod,
                           clusters |-> clusters, exportType |-> exportType],
                  call |-> [api |-> "processImage", file |-> imageFile],
                  calls |-> <<[api |-> "processImage", file |-> imageFile]>>,
                  processing |-> NULL, enhancement |-> NULL, clustering |-> NULL]]
  /\ ev' = Event("entered", "completeWorkflow")
  /\ UNCHANGED <<currentStep, processingResult, enhancementData, enhancementSelection,
                 clusteringResult, isLoading, error, nextSession, generated>>

\* A call of completeWorkflow settles: a rejection leaves the function, a
\* result is kept and the next call is made, the blob ends it.
CompleteWorkflowResumes(s, outcome) ==
  LET t == tasks[s] IN
  /\ s \in Workflows
  /\ outcome \in WorkflowOutcomes(t)
  /\ IF ~outcome.ok
     THEN /\ tasks' = [tasks EXCEPT ![s] = IDLE]
          /\ ev' = [Event("completed", "completeWorkflow") EXCEPT
                      !.status = "rejected", !.calls = t.calls, !.arg = t.arg,
                      !.rejection = outcome.err]
     ELSE IF t.call.api = "exportDxf"
     THEN /\ tasks' = [tasks EXCEPT ![s] = IDLE]
          /\ ev' = [Event("completed", "completeWorkflow") EXCEPT
                      !.status = "ok", !.calls = t.calls, !.arg = t.arg,
                      !.payload = [processing |-> t.processing,
                                   enhancement |-> t.enhancement,
                                   clustering |-> t.clustering,
                                   dxfFile |-> outcome.data]]
     ELSE LET call == NextWorkflowCall(t, outcome.data) IN
          /\ tasks' = [tasks EXCEPT ![s] =
                         [t EXCEPT !.call = call, !.calls = Append(@, call),
                                   !.processing = IF t.call.api = "processImage"
                                                  THEN outcome.data ELSE @,
                                   !.enhancement = IF t.call.api = "createEnhancedColors"
                                                   THEN outcome.data ELSE @,
                                   !.clustering = IF t.call.api = "processClustering"
                                                  THEN outcome.data ELSE @]]
          /\ ev' = Event("settled", "completeWorkflow")
  /\ nextSession' = IF outcome.ok /\ t.call.api = "processImage"
                    THEN nextSession + 1 ELSE nextSession
  /\ UNCHANGED <<currentStep, processingResult, enhancementData, enhancementSelection,
                 clusteringResult, isLoading, error, generated>>

----------------------------------------------------------------------------
(* Specification *)

Next ==
  \/ \E file \in Files : UserDropsFile(file)
  \/ \E s \in Awaiting("processImage") :
       \E outcome \in ProcessImageOutcomes(nextSession) : ProcessImageSettles(s, outcome)
  \/ \E method \in ENHANCEMENT_METHODS : UserContinues(method)
  \/ \E s \in Awaiting("createEnhancedColors") :
       \E outcome \in CreateEnhancedColorsOutcomes(tasks[s].call.bed_data,
                                                   tasks[s].pr.session_id) :
         CreateEnhancedColorsSettles(s, outcome)
  \/ \E s \in Slots : SelectionResumes(s)
  \/ \E clustersData \in ClusterMaps : UserSubmitsClusters(clustersData)
  \/ \E s \in Awaiting("processClustering") :
       \E outcome \in ProcessClusteringOutcomes : ProcessClusteringSettles(s, outcome)
  \/ \E exportType \in ExportTypes : UserExports(exportType)
  \/ \E s \in Awaiting("validateExport") :
       \E outcome \in ValidateExportOutcomes : ValidateExportSettles(s, outcome)
  \/ \E s \in Awaiting("exportDxf") :
       \E outcome \in ExportDxfOutcomes : ExportDxfSettles(s, outcome)
  \/ UserResets
  \/ UserGoesBack
  \/ UserDismissesError

Spec == Init /\ [][Next]_vars

\* The forward runs: the user only uploads, continues and submits clusters,
\* and every remote call succeeds.
Successful(outcomes) == {outcome \in outcomes : outcome.ok}

NextForward ==
  \/ \E file \in Files : UserDropsFile(file)
  \/ \E s \in Awaiting("processImage") :
       \E outcome \in Successful(ProcessImageOutcomes(nextSession)) :
         ProcessImageSettles(s, outcome)
  \/ \E method \in ENHANCEMENT_METHODS : UserContinues(method)
  \/ \E s \in Awaiting("createEnhancedColors") :
       \E outcome \in Successful(CreateEnhancedColorsOutcomes(tasks[s].call.bed_data,
                                                              tasks[s].pr.session_id)) :
         CreateEnhancedColorsSettles(s, outcome)
  \/ \E s \in Slots : SelectionResumes(s)
  \/ \E clustersData \in ClusterMaps : UserSubmitsClusters(clustersData)
  \/ \E s \in Awaiting("processClustering") :
       \E outcome \in Successful(ProcessClusteringOutcomes) :
         ProcessClusteringSettles(s, outcome)

SpecForward == Init /\ [][NextForward]_vars

\* The steps that do not wait for the user: a pending call settles (by an
\* answer or by the timeout of its axios instance) and a resumed handler
\* runs on.
Progress ==
  \/ \E s \in Awaiting("processImage") :
       \E outcome \in ProcessImageOutcomes(nextSession) : ProcessImageSettles(s, outcome)
  \/ \E s \in Awaiting("createEnhancedColors") :
       \E outcome \in CreateEnhancedColorsOutcomes(tasks[s].call.bed_data,
                                                   tasks[s].pr.session_id) :
         CreateEnhancedColorsSettles(s, outcome)
  \/ \E s \in Slots : SelectionResumes(s)
  \/ \E s \in Awaiting("processClustering") :
       \E outcome \in ProcessClusteringOutcomes : ProcessClusteringSettles(s, outcome)
  \/ \E s \in Awaiting("validateExport") :
       \E outcome \in ValidateExportOutcomes : ValidateExportSettles(s, outcome)
  \/ \E s \in Awaiting("exportDxf") :
       \E outcome \in ExportDxfOutcomes : ExportDxfSettles(s, outcome)

\* The runs in which the user starts transitions, resets and dismisses
\* errors; handleBack is left out, it cannot run while a handler is suspended.
NextLive ==
  \/ Progress
  \/ \E file \in Files : UserDropsFile(file)
  \/ \E method \in ENHANCEMENT_METHODS : UserContinues(method)
  \/ \E clustersData \in ClusterMaps : UserSubmitsClusters(clustersData)
  \/ \E exportType \in ExportTypes : UserExports(exportType)
  \/ UserResets
  \/ UserDismissesError

SpecLive == Init /\ [][NextLive]_vars /\ WF_vars(Progress)

\* The health check run next to uploads; every health request settles, by
\* an answer or by the timeout of its axios instance.
HealthProgress ==
  \/ \E s \in Slots : \E svc \in Services : \E status \in {"fulfilled", "rejected"} :
       HealthCallSettles(s, svc, status)
  \/ \E s \in Slots : HealthCheckReturns(s)

NextHealth ==
  \/ checkAllServicesHealth
  \/ \E s \in Slots : \E svc \in Services : \E status \in {"fulfilled", "rejected"} :
       HealthCallSettles(s, svc, status)
  \/ \E s \in Slots : HealthCheckReturns(s)
  \/ \E file \in Files : UserDropsFile(file)
  \/ \E s \in Awaiting("processImage") :
       \E outcome \in ProcessImageOutcomes(nextSession) : ProcessImageSettles(s, outcome)

SpecHealth == Init /\ [][NextHealth]_vars /\ WF_vars(HealthProgress)

\* completeWorkflow called on its own, as an adapter utility.
NextWorkflow ==
  \/ \E imageFile \in Files : \E method \in ENHANCEMENT_METHODS :
       \E clusters \in ClusterMaps : \E exportType \in ExportTypes :
         completeWorkflow(imageFile, method, clusters, exportType)
  \/ \E s \in Workflows : \E outcome \in WorkflowOutcomes(tasks[s]) :
       CompleteWorkflowResumes(s, outcome)

SpecWorkflow == Init /\ [][NextWorkflow]_vars

----------------------------------------------------------------------------
(* Properties *)

TransitionEntryPoints ==
  {"handleImageUpload", "handleEnhancementSelection", "handleClustering", "handleExport"}

FinishedBy(handler) == ev.kind = "completed" /\ ev.handler = handler

\* C1: when handleImageUpload succeeds, the ProcessingResult is the payload
\* of processImage, no EnhancedColorSet, EnhancementSelection or
\* ClusteringResult is held, and the stage is Enhancement.
C1_UploadInvalidatesDownstream ==
  (FinishedBy("handleImageUpload") /\ ev.status = "ok") =>
    /\ processingResult = ev.payload
    /\ enhancementData = NULL
    /\ enhancementSelection = NULL
    /\ clusteringResult = NULL
    /\ currentStep = "enhancement"

\* C2: a cached EnhancedColorSet was produced from the bed list of the
\* ProcessingResult currently held, and a selection is never built from a
\* set derived from another session.
C2_ColorsOfCurrentSession ==
  /\ enhancementData # NULL =>
       processingResult # NULL /\ enhancementData.of_session = processingResult.session_id
  /\ (FinishedBy("handleEnhancementSelection") /\ ev.status = "ok") =>
       ev.colors.of_session = ev.entry.processingResult.session_id

\* C3: within a session createEnhancedColors succeeds at most once, and once
\* it has succeeded no selection of that session issues it again.
C3_OneGenerationPerSession ==
  /\ \A sid \in Sessions : generated[sid] <= 1
  /\ \A s \in Awaiting("createEnhancedColors") : generated[tasks[s].pr.session_id] = 0

\* A selection that reused the set fetched earlier in the same session.
C3_Witness ==
  /\ FinishedBy("handleEnhancementSelection") /\ ev.status = "ok"
  /\ ev.calls = <<>>
  /\ generated[processingResult.session_id] = 1
  /\ ev.colors.of_session = processingResult.session_id

\* C4 as stated: a transition that ends in an error leaves the stage and
\* every cached artifact as they were when it was entered.
C4_ErrorWritesNothing ==
  (ev.kind = "completed" /\ ev.status = "error") => Snapshot = ev.entry

\* C4 amended: a transition that ends in an error leaves the stage, the
\* ProcessingResult, the EnhancementSelection and the ClusteringResult as
\* they were when it was entered; the EnhancedColorSet is as it was, or,
\* when the failed transition is a selection that fetched the set on a
\* cache miss, is the set it fetched.
C4_ErrorWritesOnlyFetchedColors ==
  (ev.kind = "completed" /\ ev.status = "error") =>
    \/ Snapshot = ev.entry
    \/ /\ ev.handler = "handleEnhancementSelection"
       /\ ev.entry.enhancementData = NULL
       /\ ev.colors # NULL
       /\ Snapshot = [ev.entry EXCEPT !.enhancementData = ev.colors]

\* A selection that fetched the set and then failed on the method name.
C4_Witness ==
  /\ FinishedBy("handleEnhancementSelection") /\ ev.status = "error"
  /\ ev.entry.enhancementData = NULL
  /\ ev.colors # NULL
  /\ enhancementData = ev.colors

\* C5: selecting a method that is not a key of the EnhancedColorSet ends in
\* an error with the stage at Enhancement and no selection, and issues no
\* call besides the one createEnhancedColors fetch of a cache miss.
C5_UnknownMethodRejected ==
  (/\ FinishedBy("handleEnhancementSelection")
   /\ ev.colors # NULL
   /\ ev.arg.method \notin DOMAIN ev.colors.enhanced_colors) =>
    /\ ev.status = "error"
    /\ error # NoError
    /\ currentStep = "enhancement"
    /\ enhancementSelection = NULL
    /\ InFlight = {}
    /\ IF ev.entry.enhancementData # NULL
       THEN ev.calls = <<>>
       ELSE Len(ev.calls) = 1 /\ ev.calls[1].api = "createEnhancedColors"

\* An unknown method rejected against the cached set, without any call.
C5_Witness ==
  /\ FinishedBy("handleEnhancementSelection")
  /\ ev.colors # NULL
  /\ ev.arg.method \notin DOMAIN ev.colors.enhanced_colors
  /\ ev.entry.enhancementData # NULL
  /\ ev.calls = <<>>
  /\ ev.status = "error"

\* C6: an exportDxf call is issued only after the validateExport call of
\* the same request, on the same bed list and cluster dictionary, returned
\* can_export true; a request whose validation failed or said false issues
\* no exportDxf call.
C6_ValidateBeforeExport ==
  /\ \A s \in Awaiting("exportDxf") :
       LET t == tasks[s] IN
       /\ t.validation # NULL /\ t.validation.can_export
       /\ Len(t.calls) = 2
       /\ t.calls[1].api = "validateExport"
       /\ t.calls[1].bed_data = t.call.bed_data
       /\ t.calls[1].cluster_dict = t.call.cluster_dict
  /\ (FinishedBy("handleExport") /\ (ev.validation = NULL \/ ~ev.validation.can_export)) =>
       \A i \in 1..Len(ev.calls) : ev.calls[i].api # "exportDxf"

\* An exportDxf call in flight.
C6_Witness == Awaiting("exportDxf") # {}

\* C7: when validateExport returns can_export false, the export ends in an
\* error whose message carries every message of the backend, and no file is
\* handed to downloadFile.
C7_BlockedExportReported ==
  (FinishedBy("handleExport") /\ ev.validation # NULL /\ ~ev.validation.can_export) =>
    /\ ev.status = "error"
    /\ error # NoError
    /\ \A i \in 1..Len(ev.validation.messages) :
         \E j \in 1..Len(error) : error[j] = ev.validation.messages[i]
    /\ ev.download = NULL

\* An export blocked with two backend messages.
C7_Witness ==
  /\ FinishedBy("handleExport")
  /\ ev.validation # NULL /\ ~ev.validation.can_export
  /\ Len(ev.validation.messages) = 2
  /\ error # NoError

\* C8: at most one remote call of the workflow is in flight.
C8_OneCallInFlight == Cardinality(InFlight) <= 1

\* A remote call in flight.
C8_Witness == Cardinality(InFlight) = 1 /\ isLoading

\* C9: while the loading flag is set, a gesture aimed at a transition entry
\* point changes neither the stage nor a cached artifact and issues no call.
C9_NoEntryWhileLoading ==
  [][(isLoading /\ ev'.gesture /\ ev'.handler \in TransitionEntryPoints) =>
       (Snapshot' = Snapshot /\ tasks' = tasks /\ isLoading')]_vars

\* A gesture at an entry point made while a call was in flight.
C9_Witness ==
  /\ ev.gesture /\ ev.handler \in TransitionEntryPoints
  /\ ev.wasLoading
  /\ InFlight # {}

\* C11: reset can be invoked from every stage: whenever no call is pending,
\* a reset gesture runs handleReset, after which the stage is Upload and the
\* ProcessingResult, the EnhancedColorSet, the EnhancementSelection, the
\* ClusteringResult and the error are all absent.
C11_ResetFromEveryStage ==
  [][(~isLoading /\ ev'.handler = "handleReset" /\ ev'.gesture) =>
       /\ currentStep' = "upload"
       /\ processingResult' = NULL /\ enhancementData' = NULL
       /\ enhancementSelection' = NULL /\ clusteringResult' = NULL
       /\ error' = NoError]_vars

\* C12: going back from Clustering sets the stage to Enhancement and clears
\* the EnhancementSelection; the ProcessingResult, the cached
\* EnhancedColorSet and the ClusteringResult are what they were.
C12_BackFromClustering ==
  [][(currentStep = "clustering" /\ ev'.handler = "handleBack" /\ ev'.kind = "invoked") =>
       /\ currentStep' = "enhancement"
       /\ enhancementSelection' = NULL
       /\ processingResult' = processingResult
       /\ enhancementData' = enhancementData
       /\ clusteringResult' = clusteringResult]_vars

C12_Witness ==
  /\ ev.handler = "handleBack" /\ ev.kind = "invoked"
  /\ currentStep = "enhancement"
  /\ enhancementSelection = NULL
  /\ enhancementData # NULL /\ processingResult # NULL

\* C13: a back gesture at Results, with no call pending, sets the stage to
\* Clustering and clears the ClusteringResult; the EnhancementSelection, the
\* cached EnhancedColorSet and the ProcessingResult are what they were.
C13_BackFromResults ==
  [][(currentStep = "results" /\ ~isLoading /\ ev'.handler = "handleBack" /\ ev'.gesture) =>
       /\ currentStep' = "clustering"
       /\ clusteringResult' = NULL
       /\ enhancementSelection' = enhancementSelection
       /\ enhancementData' = enhancementData
       /\ processingResult' = processingResult]_vars

\* C14: after going back from Enhancement to Upload no EnhancementSelection
\* is held and no EnhancedColorSet is cached.
C14_BackToUploadDiscardsColors ==
  (ev.handler = "handleBack" /\ ev.kind = "invoked" /\ currentStep = "upload") =>
    /\ enhancementSelection = NULL
    /\ enhancementData = NULL

\* C15: no artifact of a stage after the active one is held: the
\* EnhancementSelection is absent at Upload and at Enhancement, and the
\* ClusteringResult is absent at Upload, at Enhancement and at Clustering.
C15_NoDownstreamArtifact ==
  /\ currentStep \in {"upload", "enhancement"} => enhancementSelection = NULL
  /\ currentStep \in {"upload", "enhancement", "clustering"} => clusteringResult = NULL

C15_Witness ==
  /\ ev.handler = "handleBack" /\ ev.kind = "invoked"
  /\ currentStep = "enhancement"
  /\ enhancementSelection = NULL /\ clusteringResult = NULL
  /\ nextSession > 1

\* C16: when processImage fails, the stage is still Upload, an error message
\* is set, and the ProcessingResult, the cached EnhancedColorSet, the
\* EnhancementSelection and the ClusteringResult are what they were when
\* handleImageUpload was entered.
C16_FailedUploadKeepsState ==
  (FinishedBy("handleImageUpload") /\ ev.status = "error") =>
    /\ currentStep = "upload"
    /\ error # NoError
    /\ Snapshot = ev.entry

C16_Witness ==
  /\ FinishedBy("handleImageUpload") /\ ev.status = "error"
  /\ currentStep = "upload"
  /\ processingResult # NULL /\ enhancementData # NULL
  /\ Len(error) = 2

\* C17: every processClustering call was issued by a handleClustering that
\* saw an EnhancementSelection and a ProcessingResult with at least one bed.
C17_ClusteringNeedsBeds ==
  \A s \in Awaiting("processClustering") :
    /\ tasks[s].es # NULL
    /\ tasks[s].pr # NULL
    /\ Len(tasks[s].pr.bed_data) >= 1

\* C18: when processClustering succeeds, the ClusteringResult is its payload
\* and the stage is Results; when it fails, the stage is still Clustering,
\* no ClusteringResult is held, and the ProcessingResult, the cached
\* EnhancedColorSet and the EnhancementSelection are what they were.
C18_ClusteringOutcome ==
  FinishedBy("handleClustering") =>
    IF ev.status = "ok"
    THEN /\ clusteringResult = ev.payload
         /\ currentStep = "results"
    ELSE /\ currentStep = "clustering"
         /\ clusteringResult = NULL
         /\ processingResult = ev.entry.processingResult
         /\ enhancementData = ev.entry.enhancementData
         /\ enhancementSelection = ev.entry.enhancementSelection

C18_Witness ==
  /\ FinishedBy("handleClustering") /\ ev.status = "error"
  /\ currentStep = "clustering"
  /\ enhancementSelection # NULL
  /\ error # NoError

\* C19: the clustering view stays mounted from the submit to the failure:
\* while a processClustering call is in flight, ClusteringCanvas is rendered.
C19_CanvasKeptWhileSubmitting ==
  Awaiting("processClustering") # {} => Rendered("ClusteringCanvas")

\* The documented forward transitions: the handler of each stage and the
\* stage it leads to.
ForwardHandler ==
  [upload |-> "handleImageUpload", enhancement |-> "handleEnhancementSelection",
   clustering |-> "handleClustering"]

ForwardStage == [upload |-> "enhancement", enhancement |-> "clustering", clustering |-> "results"]

\* C20: in a forward run every successful step was taken at the stage of its
\* handler and ends at the next stage; after the upload the ProcessingResult
\* is the payload of processImage, after the selection the cached
\* EnhancedColorSet is the one payload createEnhancedColors returned for this
\* ProcessingResult, after the clustering the ClusteringResult is the payload
\* of processClustering, and the artifacts of the earlier steps are kept.
C20_ForwardRunFollowsTransitions ==
  (ev.kind = "completed" /\ ev.status = "ok") =>
    /\ ev.entry.currentStep \in DOMAIN ForwardHandler
    /\ ev.handler = ForwardHandler[ev.entry.currentStep]
    /\ currentStep = ForwardStage[ev.entry.currentStep]
    /\ ev.handler = "handleImageUpload" => processingResult = ev.payload
    /\ ev.handler = "handleEnhancementSelection" =>
         /\ processingResult = ev.entry.processingResult
         /\ enhancementData = ev.colors
         /\ enhancementData.of_session = processingResult.session_id
         /\ generated[processingResult.session_id] = 1
    /\ ev.handler = "handleClustering" =>
         /\ clusteringResult = ev.payload
         /\ processingResult = ev.entry.processingResult
         /\ enhancementData = ev.entry.enhancementData
         /\ enhancementData.of_session = processingResult.session_id

C20_Witness ==
  /\ FinishedBy("handleClustering") /\ ev.status = "ok"
  /\ currentStep = "results"
  /\ Len(processingResult.bed_data) >= 1
  /\ enhancementData # NULL /\ enhancementSelection # NULL
  /\ clusteringResult = ev.payload

\* C21: when handleEnhancementSelection succeeds, the EnhancementSelection has
\* the chosen method, as plot data the rows stored under it in the
\* EnhancedColorSet, as original colors the rows stored under original when
\* that key is there and otherwise the rgb_median of each bed in bed order,
\* and the whole EnhancedColorSet; the stage is Clustering.
C21_SelectionContents ==
  (FinishedBy("handleEnhancementSelection") /\ ev.status = "ok") =>
    LET rows == ev.colors.enhanced_colors
        beds == processingResult.bed_data
    IN /\ currentStep = "clustering"
       /\ enhancementSelection.method = ev.arg.method
       /\ ev.arg.method \in DOMAIN rows
       /\ enhancementSelection.plot_data = rows[ev.arg.method]
       /\ enhancementSelection.original_colors =
            IF "original" \in DOMAIN rows THEN rows["original"]
            ELSE [i \in 1..Len(beds) |-> beds[i].rgb_median]
       /\ enhancementSelection.full_enhanced_colors = rows

C21_Witness ==
  /\ FinishedBy("handleEnhancementSelection") /\ ev.status = "ok"
  /\ ev.arg.method = "pca_features"
  /\ "original" \notin DOMAIN ev.colors.enhanced_colors
  /\ Len(processingResult.bed_data) = 2
  /\ enhancementSelection.original_colors[2] = processingResult.bed_data[2].rgb_median

\* C22: when the ProcessingResult has n beds and the original entry of the
\* EnhancedColorSet has n rows, the original_colors of the selection built
\* has n rows and row i is the rgb_median of bed i.
C22_OriginalColorsAreBedMedians ==
  (/\ FinishedBy("handleEnhancementSelection") /\ ev.status = "ok"
   /\ "original" \in DOMAIN ev.colors.enhanced_colors
   /\ Len(ev.colors.enhanced_colors["original"]) = Len(processingResult.bed_data)) =>
    /\ Len(enhancementSelection.original_colors) = Len(processingResult.bed_data)
    /\ \A i \in 1..Len(processingResult.bed_data) :
         enhancementSelection.original_colors[i] = processingResult.bed_data[i].rgb_median

\* C23: the cluster dictionary of every call handleExport makes comes from
\* the ClusteringResult it saw: for n clusters its keys are "0".."n-1", the
\* value under key i is the i-th cluster name in iteration order, every
\* cluster name appears once, and validateExport and exportDxf are given
\* the same dictionary.
C23_ClusterDictionary ==
  \A s \in Slots :
    tasks[s].handler = "handleExport" =>
      LET clusters == tasks[s].cr.processed_clusters
          calls == tasks[s].calls
      IN /\ \A k \in 1..Len(calls) :
              LET dict == calls[k].cluster_dict IN
              /\ DOMAIN dict = {toString(i) : i \in 0..(Len(clusters) - 1)}
              /\ \A i \in 1..Len(clusters) :
                   /\ dict[toString(i - 1)] = clusters[i].name
                   /\ Cardinality({key \in DOMAIN dict : dict[key] = clusters[i].name}) = 1
         /\ \A k \in 1..Len(calls) : calls[k].cluster_dict = calls[1].cluster_dict

C23_Witness ==
  \E s \in Awaiting("exportDxf") :
    /\ Len(tasks[s].calls) = 2
    /\ tasks[s].calls[1].api = "validateExport"
    /\ Len(tasks[s].cr.processed_clusters) = 2
    /\ tasks[s].call.cluster_dict[<<"1">>] = <<"cluster", 2>>

\* C24: a createEnhancedColors response in which some method has a number of
\* rows other than the number of beds of the ProcessingResult is rejected:
\* an error is set, no EnhancedColorSet is cached and the stage is Enhancement.
C24_MismatchedColorsRejected ==
  (/\ ev.kind = "settled" /\ ev.handler = "generateEnhancedColors" /\ ev.status = "ok"
   /\ \E m \in DOMAIN ev.payload.enhanced_colors :
        Len(ev.payload.enhanced_colors[m]) # Len(processingResult.bed_data)) =>
    /\ error # NoError
    /\ enhancementData = NULL
    /\ currentStep = "enhancement"

\* C25: processImage is only ever called with a file of an image media type
\* that is not larger than 10 MB.
C25_OnlyValidFilesUploaded ==
  \A s \in Awaiting("processImage") :
    /\ tasks[s].call.file.type[1] = "image"
    /\ tasks[s].call.file.megabytes <= 10

\* sub occurs in text as a run of consecutive pieces
Contains(text, sub) ==
  \E i \in 1..(Len(text) - Len(sub) + 1) : SubSeq(text, i, i + Len(sub) - 1) = sub

\* C26: when the remote call of a transition was rejected with a message
\* from the backend, the error message left by the transition contains it.
C26_BackendMessageShown ==
  (ev.kind = "completed" /\ ev.rejection # NULL /\ ev.rejection.detail # <<>>) =>
    Contains(error, ev.rejection.detail)

\* C27: handleExport never changes the stage or an artifact, whether the file
\* is delivered, the export is blocked or a call fails; every invocation
\* starts with its own validateExport call, and it issues its own exportDxf
\* call exactly when the validation allows the export.
C27_ExportIsSelfTransition ==
  /\ (ev.kind = "entered" /\ ev.handler = "handleExport") => Awaiting("validateExport") # {}
  /\ FinishedBy("handleExport") =>
       /\ currentStep = "results"
       /\ Snapshot = ev.entry
       /\ ev.calls[1].api = "validateExport"
       /\ Len(ev.calls) = 2 <=> (ev.validation # NULL /\ ev.validation.can_export)
       /\ Len(ev.calls) = 2 => ev.calls[2].api = "exportDxf"
       /\ ev.status = "ok" => (Len(ev.calls) = 2 /\ ev.download # NULL)

C27_Witness ==
  /\ FinishedBy("handleExport") /\ ev.status = "ok"
  /\ ev.download # NULL
  /\ Len(ev.calls) = 2
  /\ currentStep = "results" /\ clusteringResult # NULL

NoRepeat(calls) ==
  \A i, j \in 1..Len(calls) : i # j => calls[i].api # calls[j].api

\* C28: no invocation of a handler issues the same remote call twice, and a
\* call is in flight only after a user gesture or after the validation that
\* lets handleExport go on to exportDxf, never after a rejection.
C28_NoAutomaticRetry ==
  /\ \A s \in Slots : tasks[s] # IDLE => NoRepeat(tasks[s].calls)
  /\ ev.kind = "completed" => NoRepeat(ev.calls)
  /\ InFlight # {} =>
       /\ ev.rejection = NULL
       /\ \/ ev.gesture
          \/ ev.kind = "settled" /\ ev.handler = "handleExport" /\ ev.validation.can_export

C28_Witness ==
  /\ ev.kind = "completed" /\ ev.rejection # NULL
  /\ ev.handler = "handleExport" /\ Len(ev.calls) = 2
  /\ InFlight = {} /\ ~isLoading

\* C29: checkAllServicesHealth has its three calls pending together; once
\* started it returns, without raising, whichever calls fail and in whatever
\* order they settle; it reports a service as healthy exactly when the call
\* to it was fulfilled; and none of its steps changes the stage, an
\* artifact, the loading flag or the error.
C29_HealthCheck ==
  /\ [](/\ (ev.kind = "entered" /\ ev.handler = "checkAllServicesHealth") =>
            \E s \in HealthChecks : \A svc \in Services : tasks[s].results[svc] = "pending"
        /\ (ev.kind = "completed" /\ ev.handler = "checkAllServicesHealth") =>
            /\ ev.status = "ok"
            /\ Len(ev.calls) = 3
            /\ \A svc \in Services :
                 ev.payload[svc] <=>
                   \E i \in 1..3 : ev.calls[i] = [service |-> svc, status |-> "fulfilled"])
  /\ [][ev'.handler = "checkAllServicesHealth" =>
          /\ Snapshot' = Snapshot
          /\ isLoading' = isLoading /\ error' = error]_vars
  /\ (HealthChecks # {}) ~> (ev.kind = "completed" /\ ev.handler = "checkAllServicesHealth")

C29_Witness ==
  /\ ev.kind = "completed" /\ ev.handler = "checkAllServicesHealth"
  /\ ev.calls[1] = [service |-> "dxfExport", status |-> "rejected"]
  /\ ev.calls[3].service = "imageProcessing"
  /\ ev.payload["clustering"] /\ ~ev.payload["dxfExport"]
  /\ isLoading /\ InFlight # {}

\* The predecessor of each stage; Upload has none.
Predecessor ==
  [upload |-> "upload", enhancement |-> "upload", clustering |-> "enhancement",
   results |-> "clustering"]

\* C30: a back gesture made while nothing is loading issues no remote call,
\* leaves the loading flag alone and moves the stage to its predecessor; at
\* Upload it changes neither the stage nor an artifact.
C30_BackMovesToPredecessor ==
  [][(~isLoading /\ ev'.handler = "handleBack" /\ ev'.gesture) =>
       /\ tasks' = tasks
       /\ isLoading' = isLoading
       /\ currentStep' = Predecessor[currentStep]
       /\ currentStep = "upload" => Snapshot' = Snapshot]_vars

\* C31: the loading flag is set for as long as a transition has been entered
\* and has not made its last write.
C31_LoadingUntilLastWrite ==
  \A s \in Slots : tasks[s].handler \in TransitionEntryPoints => isLoading

\* C32: a transition that has been entered completes; when it has completed
\* its handler has returned, the loading flag is down, and either it made
\* its success writes or an error message is set.
C32_TransitionsComplete ==
  /\ [](ev.kind = "completed" =>
          /\ Busy = {}
          /\ ~isLoading
          /\ ev.status \in {"ok", "error"}
          /\ ev.status = "error" => error # NoError
          /\ ev.status = "ok" =>
               CASE ev.handler = "handleImageUpload" -> processingResult = ev.payload
                 [] ev.handler = "handleEnhancementSelection" ->
                      enhancementSelection # NULL /\ currentStep = "clustering"
                 [] ev.handler = "handleClustering" -> clusteringResult = ev.payload
                 [] ev.handler = "handleExport" -> ev.download # NULL)
  /\ (Busy # {}) ~> (Busy = {} /\ ev.kind = "completed")

C32_Witness ==
  /\ FinishedBy("handleEnhancementSelection") /\ ev.status = "error"
  /\ ev.rejection # NULL
  /\ Busy = {} /\ ~isLoading
  /\ error = <<"Enhancement Selection Error: ", "Failed to generate enhanced colors">>

\* The order in which the workflow is to call the services.
WorkflowOrder ==
  <<"processImage", "createEnhancedColors", "processClustering", "validateExport", "exportDxf">>

\* C33: the calls of completeWorkflow follow the order processImage,
\* createEnhancedColors, processClustering, validateExport, exportDxf, each
\* made after the one before it succeeded, and the cluster dictionary given
\* to exportDxf comes from the mapping of the ClusteringResult received.
C33_WorkflowOrder ==
  \A s \in Workflows :
    LET t == tasks[s] IN
    /\ \A k \in 1..Len(t.calls) : t.calls[k].api = WorkflowOrder[k]
    /\ t.call.api = "exportDxf" =>
         t.call.cluster_dict = ClusterDict(t.clustering.processed_clusters)

\* C34: whenever the loading flag is down, the active stage has the data it
\* renders from: a ProcessingResult at Enhancement, also an
\* EnhancementSelection at Clustering, also a ClusteringResult at Results.
C34_StageHasItsData ==
  ~isLoading =>
    /\ currentStep \in {"enhancement", "clustering", "results"} => processingResult # NULL
    /\ currentStep \in {"clustering", "results"} => enhancementSelection # NULL
    /\ currentStep = "results" => clusteringResult # NULL

C34_Witness ==
  /\ ~isLoading /\ currentStep = "results"
  /\ FinishedBy("handleExport") /\ ev.status = "error"
  /\ processingResult # NULL /\ enhancementSelection # NULL /\ clusteringResult # NULL

\* C35: an EnhancementSelection that is held was built from the cached
\* EnhancedColorSet: its method is a key of the set, its plot data are the
\* rows under that key, its full set is the cached one; and the colors a
\* pending processClustering call was given are those of the cache.
C35_SelectionMatchesCache ==
  /\ enhancementSelection # NULL =>
       /\ enhancementData # NULL
       /\ enhancementSelection.method \in DOMAIN enhancementData.enhanced_colors
       /\ enhancementSelection.plot_data =
            enhancementData.enhanced_colors[enhancementSelection.method]
       /\ enhancementSelection.full_enhanced_colors = enhancementData.enhanced_colors
  /\ \A s \in Awaiting("processClustering") :
       enhancementData # NULL /\ tasks[s].call.enhanced_colors = enhancementData.enhanced_colors

C35_Witness ==
  \E s \in Awaiting("processClustering") :
    /\ enhancementSelection.method = "color_ratios"
    /\ Len(processingResult.bed_data) = 2
    /\ tasks[s].call.enhanced_colors["color_ratios"] = enhancementSelection.plot_data

\* C36: the stage changes only by one step forward, made by the successful
\* completion of the handler of the stage it leaves (with the payload of its
\* call stored, for the selection with a color set cached), by one step
\* back made by handleBack, or by handleReset to Upload.
C36_StageNeverSkips ==
  [][currentStep' # currentStep =>
       \/ /\ currentStep \in DOMAIN ForwardHandler
          /\ currentStep' = ForwardStage[currentStep]
          /\ ev'.kind = "completed" /\ ev'.status = "ok"
          /\ ev'.handler = ForwardHandler[currentStep]
          /\ currentStep = "upload" => processingResult' = ev'.payload
          /\ currentStep = "enhancement" =>
               enhancementData' # NULL /\ enhancementSelection' # NULL
          /\ currentStep = "clustering" => clusteringResult' = ev'.payload
       \/ /\ ev'.handler = "handleBack" /\ ev'.kind = "invoked"
          /\ currentStep' = Predecessor[currentStep]
       \/ /\ ev'.handler = "handleReset" /\ ev'.kind = "invoked"
          /\ currentStep' = "upload"]_vars

C36_Witness ==
  /\ FinishedBy("handleImageUpload") /\ ev.status = "ok"
  /\ currentStep = "enhancement"
  /\ ev.entry.processingResult # NULL
  /\ processingResult.session_id = 2

====
